---- MODULE Spec2Model ----
(***************************************************************************)
(* PayWhirl API client (src/paywhirl.py): one class, one method per remote *)
(* endpoint, all funnelled through PayWhirl._request, which calls          *)
(* requests.get / requests.post, then resp.raise_for_status(), then        *)
(* resp.json().                                                            *)
(*                                                                         *)
(* The model records, for every caller, the call it made, the arguments    *)
(* _request handed to the requests library, the response the remote        *)
(* service gave, and what the call delivered to the caller.                *)
(***************************************************************************)
EXTENDS Integers, Sequences, FiniteSets, TLC

VARIABLES
    self,       \* the PayWhirl object: _api_key, _api_secret, _api_base, _verify_ssl
    ctor,       \* the arguments __init__ was called with
    pc,         \* per caller: "idle", "sent", "received", "checked", "done"
    call,       \* per caller: the public method invoked, its arguments, and what it passed to _request
    req,        \* per caller: the requests.get / requests.post call of the current invocation
    resp,       \* per caller: the Response object requests returned
    outcome,    \* per caller: what the invocation delivered (a value or an exception)
    calls,      \* number of public-method invocations started so far
    wire,       \* the transport: requests it received, responses it gave
    identical   \* per caller: the current invocation repeats the previous one's method and arguments

vars == <<self, ctor, pc, call, req, resp, outcome, calls, wire, identical>>

----------------------------------------------------------------------------
(* Bounds of the model *)

\* number of public-method invocations explored
MaxCalls == 2

\* execution contexts that may hold a reference to the client
Threads == {1, 2}

\* identifiers handed to the by-id methods
Ids == {7, 42}

----------------------------------------------------------------------------
(* Python values.  Every value has the same four fields so that any two    *)
(* can be compared: t is the Python type, i the number of an int or bool,  *)
(* s the text of a str, d the items of a dict.                             *)

NoItems == <<>>

PyNone == [t |-> "NoneType", i |-> 0, s |-> "", d |-> NoItems]

PyInt(n) == [t |-> "int", i |-> n, s |-> "", d |-> NoItems]

PyBool(b) == [t |-> "bool", i |-> IF b THEN 1 ELSE 0, s |-> "", d |-> NoItems]

PyStr(x) == [t |-> "str", i |-> 0, s |-> x, d |-> NoItems]

PyList == [t |-> "list", i |-> 0, s |-> "", d |-> NoItems]

PyDict(items) == [t |-> "dict", i |-> 0, s |-> "", d |-> items]

EmptyDict == PyDict(NoItems)

\* a keyword argument that is not passed at all
Absent == [t |-> "absent", i |-> 0, s |-> "", d |-> NoItems]

\* Python truth value: None, 0, False, '', [] and {} are false
Truthy(v) ==
    CASE v.t = "NoneType" -> FALSE
      [] v.t = "int"      -> v.i # 0
      [] v.t = "bool"     -> v.i # 0
      [] v.t = "str"      -> v.s # ""
      [] v.t = "list"     -> FALSE
      [] v.t = "dict"     -> DOMAIN v.d # {}
      [] OTHER            -> TRUE

\* `a or b` with a defect: only None is replaced (b if a is None else a)
OrNoneOnly(a, b) == IF a = PyNone THEN b ELSE a

\* Python `a or b`
Or(a, b) == IF Truthy(a) THEN a ELSE b

\* d[key] = value on a dict
SetItem(dict, key, value) ==
    PyDict([k \in DOMAIN dict.d \cup {key} |-> IF k = key THEN value ELSE dict.d[k]])

Digit == <<"0", "1", "2", "3", "4", "5", "6", "7", "8", "9">>

\* str(n) of an int: its decimal digits
RECURSIVE Str(_)
Str(n) ==
    IF n < 0 THEN "-" \o Str(-n)
    ELSE IF n < 10 THEN Digit[n + 1]
    ELSE Str(n \div 10) \o Digit[(n % 10) + 1]

\* str(v) of a Python value
Text(v) ==
    CASE v.t = "int"      -> Str(v.i)
      [] v.t = "str"      -> v.s
      [] v.t = "bool"     -> IF v.i = 1 THEN "True" ELSE "False"
      [] v.t = "NoneType" -> "None"
      [] v.t = "list"     -> "[]"
      [] OTHER            -> "{}"

\* str.format(template, arg): the template is given as its literal pieces,
\* with "{0}" the replacement field
RECURSIVE format(_, _)
format(template, arg) ==
    IF template = <<>> THEN ""
    ELSE (IF Head(template) = "{0}" THEN Text(arg) ELSE Head(template))
         \o format(Tail(template), arg)

----------------------------------------------------------------------------
(* Inputs *)

ApiKeys == {"pwpk_a", "pwpk_b"}

ApiSecrets == {"pwpsk_x"}

DefaultApiBase == "https://api.paywhirl.com"

ApiBases == {DefaultApiBase, "http://localhost:8080"}

\* what callers pass where a method expects a dict
DataArgs ==
    { PyNone, PyInt(0), PyStr(""), PyList, EmptyDict,
      PyDict([limit |-> PyInt(5)]),
      PyDict([id |-> PyInt(7), first_name |-> PyStr("Ann")]) }

\* what callers pass for an optional int argument (None when left out)
OptInts == {PyNone, PyInt(0), PyInt(1)}

\* the optional arguments of update_subscription: left out, or a falsy int
OptArgs == {PyNone, PyInt(0)}

PlanIds == {3}

Emails == {"ann@example.com"}

Passwords == {"hunter2"}

PromoCodes == {"SAVE10"}

\* get_questions: the default list size and another one
ListSizes == {100, 5}

\* response bodies of the remote service
Bodies == {"{\"id\": 42}", "[]", "Unauthorized"}

\* response status codes of the remote service
Statuses == {100, 200, 204, 304, 401, 404, 500}

----------------------------------------------------------------------------
(* Records of the state *)

NoCall == [name |-> "", args |-> <<>>, method |-> "", path |-> "", params |-> Absent]

NoHeaders == [api_key |-> "", api_secret |-> ""]

NoReq == [verb |-> "", url |-> "", headers |-> NoHeaders, verify |-> FALSE,
          params |-> Absent, json |-> Absent]

NoResp == [status_code |-> 0, text |-> "", request |-> NoReq]

NoOutcome == [kind |-> "none", value |-> Absent, status_code |-> 0, text |-> ""]

----------------------------------------------------------------------------
(* The requests library, as PayWhirl._request uses it *)

\* requests.get(url, params=params, headers=headers, verify=verify)
requests_get(url, params, headers, verify) ==
    [verb |-> "GET", url |-> url, headers |-> headers, verify |-> verify,
     params |-> params, json |-> Absent]

\* requests.post(url, json=params, headers=headers, verify=verify)
requests_post(url, json, headers, verify) ==
    [verb |-> "POST", url |-> url, headers |-> headers, verify |-> verify,
     params |-> Absent, json |-> json]

\* the query string requests builds from params=: one key=value pair per
\* item of the mapping, an item whose value is None left out
QueryString(params) ==
    IF params.t # "dict" THEN {}
    ELSE { k \o "=" \o Text(params.d[k]) :
             k \in {x \in DOMAIN params.d : params.d[x].t # "NoneType"} }

\* raise_for_status with a defect: only client errors raise
raise_for_status_4xx_only(r) == 400 <= r.status_code /\ r.status_code < 500

\* raise_for_status with a defect: everything but 2xx raises
raise_for_status_not_2xx(r) == ~(200 <= r.status_code /\ r.status_code < 300)

\* resp.raise_for_status() raises HTTPError: 4xx client error, 5xx server error
raise_for_status(r) == 400 <= r.status_code /\ r.status_code < 600

\* resp.json() succeeds: the body is a JSON document
JsonValid(text) == text \in {"{\"id\": 42}", "[]"}

\* resp.json(): the decoded body
JsonLoads(text) ==
    CASE text = "{\"id\": 42}" -> PyDict([id |-> PyInt(42)])
      [] text = "[]"           -> PyList
      [] OTHER                 -> Absent

----------------------------------------------------------------------------
(* PayWhirl.__init__ *)

\* __init__ with a defect: the secret is stored as the key
init_swapped(api_key, api_secret, api_base) ==
    [_api_key |-> api_secret, _api_secret |-> api_key,
     _api_base |-> api_base, _verify_ssl |-> TRUE]

__init__(api_key, api_secret, api_base) ==
    [_api_key |-> api_key, _api_secret |-> api_secret,
     _api_base |-> api_base, _verify_ssl |-> TRUE]

Init ==
    /\ \E k \in ApiKeys, s \in ApiSecrets, b \in ApiBases :
          /\ ctor = [api_key |-> k, api_secret |-> s, api_base |-> b]
          /\ self = __init__(k, s, b)
    /\ pc = [t \in Threads |-> "idle"]
    /\ call = [t \in Threads |-> NoCall]
    /\ req = [t \in Threads |-> NoReq]
    /\ resp = [t \in Threads |-> NoResp]
    /\ outcome = [t \in Threads |-> NoOutcome]
    /\ calls = 0
    /\ wire = [requests |-> 0, responses |-> 0]
    /\ identical = [t \in Threads |-> FALSE]

----------------------------------------------------------------------------
(* PayWhirl._request, up to the moment requests has sent the request.      *)
(* name and args are the public method caller t invoked and its arguments. *)

\* _request with a defect: a call repeating the previous one is served from
\* a remembered response and sends nothing
request_memoized(t, name, args, method, path, params) ==
    LET p == Or(params, EmptyDict)
        url == self._api_base \o path
        headers == [api_key |-> self._api_key, api_secret |-> self._api_secret]
        sent == IF method = "post"
                THEN requests_post(url, p, headers, self._verify_ssl)
                ELSE requests_get(url, p, headers, self._verify_ssl)
        again == call[t].name = name /\ call[t].args = args
    IN  /\ pc[t] = "idle"
        /\ calls < MaxCalls
        /\ calls' = calls + 1
        /\ identical' = [identical EXCEPT ![t] = again]
        /\ call' = [call EXCEPT ![t] = [name |-> name, args |-> args, method |-> method,
                                        path |-> path, params |-> params]]
        /\ req' = [req EXCEPT ![t] = sent]
        /\ wire' = IF again THEN wire ELSE [wire EXCEPT !.requests = @ + 1]
        /\ pc' = [pc EXCEPT ![t] = "sent"]
        /\ UNCHANGED <<self, ctor, resp, outcome>>

\* _request with a defect: the parameters of a GET go into the body too
request_get_with_body(t, name, args, method, path, params) ==
    LET p == Or(params, EmptyDict)
        url == self._api_base \o path
        headers == [api_key |-> self._api_key, api_secret |-> self._api_secret]
        sent == IF method = "post"
                THEN requests_post(url, p, headers, self._verify_ssl)
                ELSE [requests_get(url, p, headers, self._verify_ssl) EXCEPT !.json = p]
    IN  /\ pc[t] = "idle"
        /\ calls < MaxCalls
        /\ calls' = calls + 1
        /\ identical' = [identical EXCEPT ![t] = call[t].name = name /\ call[t].args = args]
        /\ call' = [call EXCEPT ![t] = [name |-> name, args |-> args, method |-> method,
                                        path |-> path, params |-> params]]
        /\ req' = [req EXCEPT ![t] = sent]
        /\ wire' = [wire EXCEPT !.requests = @ + 1]
        /\ pc' = [pc EXCEPT ![t] = "sent"]
        /\ UNCHANGED <<self, ctor, resp, outcome>>

\* _request with a defect: the URL is built in place (self._api_base += path)
request_grows_base(t, name, args, method, path, params) ==
    LET p == Or(params, EmptyDict)
        url == self._api_base \o path
        headers == [api_key |-> self._api_key, api_secret |-> self._api_secret]
        sent == IF method = "post"
                THEN requests_post(url, p, headers, self._verify_ssl)
                ELSE requests_get(url, p, headers, self._verify_ssl)
    IN  /\ pc[t] = "idle"
        /\ calls < MaxCalls
        /\ calls' = calls + 1
        /\ identical' = [identical EXCEPT ![t] = call[t].name = name /\ call[t].args = args]
        /\ call' = [call EXCEPT ![t] = [name |-> name, args |-> args, method |-> method,
                                        path |-> path, params |-> params]]
        /\ req' = [req EXCEPT ![t] = sent]
        /\ wire' = [wire EXCEPT !.requests = @ + 1]
        /\ pc' = [pc EXCEPT ![t] = "sent"]
        /\ self' = [self EXCEPT !._api_base = url]
        /\ UNCHANGED <<ctor, resp, outcome>>

\* _request with a defect: the request under construction is kept on the
\* client object, so a caller whose request is still in flight sees the
\* request of whoever called last
request_shared_slot(t, name, args, method, path, params) ==
    LET p == Or(params, EmptyDict)
        url == self._api_base \o path
        headers == [api_key |-> self._api_key, api_secret |-> self._api_secret]
        sent == IF method = "post"
                THEN requests_post(url, p, headers, self._verify_ssl)
                ELSE requests_get(url, p, headers, self._verify_ssl)
    IN  /\ pc[t] = "idle"
        /\ calls < MaxCalls
        /\ calls' = calls + 1
        /\ identical' = [identical EXCEPT ![t] = call[t].name = name /\ call[t].args = args]
        /\ call' = [call EXCEPT ![t] = [name |-> name, args |-> args, method |-> method,
                                        path |-> path, params |-> params]]
        /\ req' = [u \in Threads |-> IF u = t \/ pc[u] = "sent" THEN sent ELSE req[u]]
        /\ wire' = [wire EXCEPT !.requests = @ + 1]
        /\ pc' = [pc EXCEPT ![t] = "sent"]
        /\ UNCHANGED <<self, ctor, resp, outcome>>

_request(t, name, args, method, path, params) ==
    LET p == Or(params, EmptyDict)
        url == self._api_base \o path
        headers == [api_key |-> self._api_key, api_secret |-> self._api_secret]
        sent == IF method = "post"
                THEN requests_post(url, p, headers, self._verify_ssl)
                ELSE requests_get(url, p, headers, self._verify_ssl)
    IN  /\ pc[t] = "idle"
        /\ calls < MaxCalls
        /\ calls' = calls + 1
        /\ identical' = [identical EXCEPT ![t] = call[t].name = name /\ call[t].args = args]
        /\ call' = [call EXCEPT ![t] = [name |-> name, args |-> args, method |-> method,
                                        path |-> path, params |-> params]]
        /\ req' = [req EXCEPT ![t] = sent]
        /\ wire' = [wire EXCEPT !.requests = @ + 1]
        /\ pc' = [pc EXCEPT ![t] = "sent"]
        /\ UNCHANGED <<self, ctor, resp, outcome>>

_post(t, name, args, path, params) == _request(t, name, args, "post", path, params)

_get(t, name, args, path, params) == _request(t, name, args, "get", path, params)

\* the remote service answers and requests.get / requests.post returns
Respond(t) ==
    /\ pc[t] = "sent"
    /\ \E status \in Statuses, body \in Bodies :
          resp' = [resp EXCEPT ![t] = [status_code |-> status, text |-> body,
                                      request |-> req[t]]]
    /\ wire' = [wire EXCEPT !.responses = @ + 1]
    /\ pc' = [pc EXCEPT ![t] = "received"]
    /\ UNCHANGED <<self, ctor, call, req, outcome, calls, identical>>

\* resp.raise_for_status()
\* resp.raise_for_status() with a defect: the body is decoded before the
\* status is looked at, so a body that is not JSON fails the decoding first
RaiseForStatus_decode_first(t) ==
    /\ pc[t] = "received"
    /\ IF ~JsonValid(resp[t].text)
       THEN /\ outcome' = [outcome EXCEPT ![t] =
                    [kind |-> "JSONDecodeError", value |-> Absent,
                     status_code |-> 0, text |-> ""]]
            /\ pc' = [pc EXCEPT ![t] = "done"]
       ELSE IF raise_for_status(resp[t])
       THEN /\ outcome' = [outcome EXCEPT ![t] =
                    [kind |-> "HTTPError", value |-> Absent,
                     status_code |-> resp[t].status_code, text |-> resp[t].text]]
            /\ pc' = [pc EXCEPT ![t] = "done"]
       ELSE /\ pc' = [pc EXCEPT ![t] = "checked"]
            /\ UNCHANGED outcome
    /\ UNCHANGED <<self, ctor, call, req, resp, calls, wire, identical>>

RaiseForStatus(t) ==
    /\ pc[t] = "received"
    /\ IF raise_for_status(resp[t])
       THEN /\ outcome' = [outcome EXCEPT ![t] =
                    [kind |-> "HTTPError", value |-> Absent,
                     status_code |-> resp[t].status_code, text |-> resp[t].text]]
            /\ pc' = [pc EXCEPT ![t] = "done"]
       ELSE /\ pc' = [pc EXCEPT ![t] = "checked"]
            /\ UNCHANGED outcome
    /\ UNCHANGED <<self, ctor, call, req, resp, calls, wire, identical>>

\* return resp.json() with a defect: the decoded body is wrapped before it
\* is returned
ReturnJson_wrapped(t) ==
    /\ pc[t] = "checked"
    /\ outcome' = [outcome EXCEPT ![t] =
            IF JsonValid(resp[t].text)
            THEN [kind |-> "return", value |-> PyDict([data |-> JsonLoads(resp[t].text)]),
                  status_code |-> 0, text |-> ""]
            ELSE [kind |-> "JSONDecodeError", value |-> Absent,
                  status_code |-> 0, text |-> ""]]
    /\ pc' = [pc EXCEPT ![t] = "done"]
    /\ UNCHANGED <<self, ctor, call, req, resp, calls, wire, identical>>

\* return resp.json()
ReturnJson(t) ==
    /\ pc[t] = "checked"
    /\ outcome' = [outcome EXCEPT ![t] =
            IF JsonValid(resp[t].text)
            THEN [kind |-> "return", value |-> JsonLoads(resp[t].text),
                  status_code |-> 0, text |-> ""]
            ELSE [kind |-> "JSONDecodeError", value |-> Absent,
                  status_code |-> 0, text |-> ""]]
    /\ pc' = [pc EXCEPT ![t] = "done"]
    /\ UNCHANGED <<self, ctor, call, req, resp, calls, wire, identical>>

\* the caller has the result (or the exception) and is free to call again
Deliver(t) ==
    /\ pc[t] = "done"
    /\ pc' = [pc EXCEPT ![t] = "idle"]
    /\ req' = [req EXCEPT ![t] = NoReq]
    /\ resp' = [resp EXCEPT ![t] = NoResp]
    /\ outcome' = [outcome EXCEPT ![t] = NoOutcome]
    /\ UNCHANGED <<self, ctor, call, calls, wire, identical>>

----------------------------------------------------------------------------
(* The public methods.  Each is the whole method: it builds its parameter  *)
(* mapping and path and hands them to _get or _post.  An argument left out *)
(* by the caller has its default value.                                    *)

\* get_customers with a defect: the documented default limit is filled in
get_customers_default_limit(t) ==
    \E data \in DataArgs :
        LET filled == IF data.t = "dict" /\ "limit" \notin DOMAIN data.d
                      THEN SetItem(data, "limit", PyInt(100)) ELSE data
        IN  _get(t, "get_customers", <<data>>, "/customers", filled)

get_customers(t) ==
    \E data \in DataArgs :
        _get(t, "get_customers", <<data>>, "/customers", data)

get_customer(t) ==
    \E customer_id \in Ids :
        _get(t, "get_customer", <<PyInt(customer_id)>>,
             format(<<"/customer/", "{0}">>, PyInt(customer_id)), PyNone)

get_addresses(t) ==
    \E customer_id \in Ids :
        _get(t, "get_addresses", <<PyInt(customer_id)>>,
             format(<<"/customer/addresses/", "{0}">>, PyInt(customer_id)), PyNone)

get_address(t) ==
    \E address_id \in Ids :
        _get(t, "get_address", <<PyInt(address_id)>>,
             format(<<"/customer/address/", "{0}">>, PyInt(address_id)), PyNone)

get_profile(t) ==
    \E customer_id \in Ids :
        _get(t, "get_profile", <<PyInt(customer_id)>>,
             format(<<"/customer/profile/", "{0}">>, PyInt(customer_id)), PyNone)

auth_customer(t) ==
    \E email \in Emails, password \in Passwords :
        LET data == PyDict([email |-> PyStr(email), password |-> PyStr(password)])
        IN  _post(t, "auth_customer", <<PyStr(email), PyStr(password)>>,
                  "/auth/customer", data)

create_customer(t) ==
    \E data \in DataArgs :
        _post(t, "create_customer", <<data>>, "/create/customer", data)

update_customer(t) ==
    \E data \in DataArgs :
        _post(t, "update_customer", <<data>>, "/update/customer", data)

\* delete_customer with a defect: forget is tested for truth, not for None
delete_customer_truthy_forget(t) ==
    \E customer_id \in Ids, forget \in OptInts :
        LET data0 == PyDict([id |-> PyInt(customer_id)])
            data  == IF Truthy(forget) THEN SetItem(data0, "forget", forget) ELSE data0
        IN  _post(t, "delete_customer", <<PyInt(customer_id), forget>>,
                  "/delete/customer", data)

delete_customer(t) ==
    \E customer_id \in Ids, forget \in OptInts :
        LET data0 == PyDict([id |-> PyInt(customer_id)])
            data  == IF forget # PyNone THEN SetItem(data0, "forget", forget) ELSE data0
        IN  _post(t, "delete_customer", <<PyInt(customer_id), forget>>,
                  "/delete/customer", data)

get_questions(t) ==
    \E return_list_size \in ListSizes :
        LET data == PyDict([limit |-> PyInt(return_list_size)])
        IN  _get(t, "get_questions", <<PyInt(return_list_size)>>, "/questions", data)

update_answer(t) ==
    \E data \in DataArgs :
        _post(t, "update_answer", <<data>>, "/update/answer", data)

get_answers(t) ==
    \E customer_id \in Ids :
        LET data == PyDict([customer_id |-> PyInt(customer_id)])
        IN  _get(t, "get_answers", <<PyInt(customer_id)>>, "/answers", data)

get_plans(t) ==
    \E data \in DataArgs :
        _get(t, "get_plans", <<data>>, "/plans", data)

get_plan(t) ==
    \E plan_id \in Ids :
        _get(t, "get_plan", <<PyInt(plan_id)>>,
             format(<<"/plan/", "{0}">>, PyInt(plan_id)), PyNone)

\* create_plan with a defect: a default is filled in for a key left out
create_plan_with_default(t) ==
    \E data \in DataArgs :
        LET filled == IF data.t = "dict" /\ "enabled" \notin DOMAIN data.d
                      THEN SetItem(data, "enabled", PyInt(1)) ELSE data
        IN  _post(t, "create_plan", <<data>>, "/create/plan", filled)

create_plan(t) ==
    \E data \in DataArgs :
        _post(t, "create_plan", <<data>>, "/create/plan", data)

update_plan(t) ==
    \E data \in DataArgs :
        _post(t, "update_plan", <<data>>, "/update/plan", data)

get_subscriptions(t) ==
    \E customer_id \in Ids :
        _get(t, "get_subscriptions", <<PyInt(customer_id)>>,
             format(<<"/subscriptions/", "{0}">>, PyInt(customer_id)), PyNone)

get_subscription(t) ==
    \E subscription_id \in Ids :
        _get(t, "get_subscription", <<PyInt(subscription_id)>>,
             format(<<"/subscription/", "{0}">>, PyInt(subscription_id)), PyNone)

subscribe_customer(t) ==
    \E data \in DataArgs :
        _post(t, "subscribe_customer", <<data>>, "/subscribe/customer", data)

\* update_subscription with a defect: quantity is sent even when left out
update_subscription_null_quantity(t) ==
    \E subscription_id \in Ids, plan_id \in PlanIds,
       quantity \in OptArgs, address_id \in OptArgs, installments_left \in OptArgs,
       trial_end \in OptArgs, card_id \in OptArgs :
        LET data0 == PyDict([subscription_id |-> PyInt(subscription_id),
                             plan_id |-> PyInt(plan_id)])
            data1 == SetItem(data0, "quantity", quantity)
            data2 == IF address_id # PyNone
                     THEN SetItem(data1, "address_id", address_id) ELSE data1
            data3 == IF installments_left # PyNone
                     THEN SetItem(data2, "installments_left", installments_left) ELSE data2
            data4 == IF trial_end # PyNone
                     THEN SetItem(data3, "trial_end", trial_end) ELSE data3
            data5 == IF card_id # PyNone
                     THEN SetItem(data4, "card_id", card_id) ELSE data4
        IN  _post(t, "update_subscription",
                  <<PyInt(subscription_id), PyInt(plan_id), quantity, address_id,
                    installments_left, trial_end, card_id>>,
                  "/update/subscription", data5)

update_subscription(t) ==
    \E subscription_id \in Ids, plan_id \in PlanIds,
       quantity \in OptArgs, address_id \in OptArgs, installments_left \in OptArgs,
       trial_end \in OptArgs, card_id \in OptArgs :
        LET data0 == PyDict([subscription_id |-> PyInt(subscription_id),
                             plan_id |-> PyInt(plan_id)])
            data1 == IF quantity # PyNone
                     THEN SetItem(data0, "quantity", quantity) ELSE data0
            data2 == IF address_id # PyNone
                     THEN SetItem(data1, "address_id", address_id) ELSE data1
            data3 == IF installments_left # PyNone
                     THEN SetItem(data2, "installments_left", installments_left) ELSE data2
            data4 == IF trial_end # PyNone
                     THEN SetItem(data3, "trial_end", trial_end) ELSE data3
            data5 == IF card_id # PyNone
                     THEN SetItem(data4, "card_id", card_id) ELSE data4
        IN  _post(t, "update_subscription",
                  <<PyInt(subscription_id), PyInt(plan_id), quantity, address_id,
                    installments_left, trial_end, card_id>>,
                  "/update/subscription", data5)

unsubscribe_customer(t) ==
    \E subscription_id \in Ids :
        LET data == PyDict([subscription_id |-> PyInt(subscription_id)])
        IN  _post(t, "unsubscribe_customer", <<PyInt(subscription_id)>>, "/unsubscribe/customer", data)

get_subscribers(t) ==
    \E data \in DataArgs :
        _get(t, "get_subscribers", <<data>>, "/subscribers", data)

get_invoice(t) ==
    \E invoice_id \in Ids :
        _get(t, "get_invoice", <<PyInt(invoice_id)>>,
             format(<<"/invoice/", "{0}">>, PyInt(invoice_id)), PyNone)

get_invoices(t) ==
    \E customer_id \in Ids, all_invoices \in BOOLEAN :
        LET params == PyDict([all |-> PyStr(IF all_invoices THEN "1" ELSE "")])
        IN  _get(t, "get_invoices", <<PyInt(customer_id), PyBool(all_invoices)>>,
                 format(<<"/invoices/", "{0}">>, PyInt(customer_id)), params)

process_invoice(t) ==
    \E invoice_id \in Ids, data \in DataArgs :
        _post(t, "process_invoice", <<PyInt(invoice_id), data>>,
              format(<<"/invoice/", "{0}", "/process">>, PyInt(invoice_id)), data)

\* mark_invoice_as_paid with a defect: sent with _get
mark_invoice_as_paid_get(t) ==
    \E invoice_id \in Ids :
        _get(t, "mark_invoice_as_paid", <<PyInt(invoice_id)>>,
             format(<<"/invoice/", "{0}", "/mark-as-paid">>, PyInt(invoice_id)), PyNone)

mark_invoice_as_paid(t) ==
    \E invoice_id \in Ids :
        _post(t, "mark_invoice_as_paid", <<PyInt(invoice_id)>>,
             format(<<"/invoice/", "{0}", "/mark-as-paid">>, PyInt(invoice_id)), PyNone)

add_promo_code_to_invoice(t) ==
    \E invoice_id \in Ids, promo_code \in PromoCodes :
        LET data == PyDict([promo_code |-> PyStr(promo_code)])
        IN  _post(t, "add_promo_code_to_invoice", <<PyInt(invoice_id), PyStr(promo_code)>>,
                  format(<<"/invoice/", "{0}", "/add-promo">>, PyInt(invoice_id)), data)

remove_promo_code_from_invoice(t) ==
    \E invoice_id \in Ids :
        _post(t, "remove_promo_code_from_invoice", <<PyInt(invoice_id)>>,
             format(<<"/invoice/", "{0}", "/remove-promo">>, PyInt(invoice_id)), PyNone)

update_invoice_card(t) ==
    \E invoice_id \in Ids, card_id \in Ids :
        LET data == PyDict([card_id |-> PyInt(card_id)])
        IN  _post(t, "update_invoice_card", <<PyInt(invoice_id), PyInt(card_id)>>,
                  format(<<"/invoice/", "{0}", "/card">>, PyInt(invoice_id)), data)

update_invoice_items(t) ==
    \E invoice_id \in Ids, line_items \in DataArgs :
        _post(t, "update_invoice_items", <<PyInt(invoice_id), line_items>>,
              format(<<"/invoice/", "{0}", "/items">>, PyInt(invoice_id)), line_items)

create_invoice(t) ==
    \E data \in DataArgs :
        _post(t, "create_invoice", <<data>>, "/invoices", data)

delete_invoice(t) ==
    \E invoice_id \in Ids :
        LET data == PyDict([id |-> PyInt(invoice_id)])
        IN  _post(t, "delete_invoice", <<PyInt(invoice_id)>>, "/delete/invoice", data)

get_gateways(t) == _get(t, "get_gateways", <<>>, "/gateways", PyNone)

get_gateway(t) ==
    \E gateway_id \in Ids :
        _get(t, "get_gateway", <<PyInt(gateway_id)>>,
             format(<<"/gateway/", "{0}">>, PyInt(gateway_id)), PyNone)

create_charge(t) ==
    \E data \in DataArgs :
        _post(t, "create_charge", <<data>>, "/create/charge", data)

get_charge(t) ==
    \E charge_id \in Ids :
        _get(t, "get_charge", <<PyInt(charge_id)>>,
             format(<<"/charge/", "{0}">>, PyInt(charge_id)), PyNone)

refund_charge(t) ==
    \E charge_id \in Ids, data \in DataArgs :
        _post(t, "refund_charge", <<PyInt(charge_id), data>>,
              format(<<"/refund/charge/", "{0}">>, PyInt(charge_id)), data)

get_cards(t) ==
    \E customer_id \in Ids :
        _get(t, "get_cards", <<PyInt(customer_id)>>,
             format(<<"/cards/", "{0}">>, PyInt(customer_id)), PyNone)

\* get_card with a defect: a slash follows the identifier
get_card_trailing_slash(t) ==
    \E card_id \in Ids :
        _get(t, "get_card", <<PyInt(card_id)>>,
             format(<<"/card/", "{0}", "/">>, PyInt(card_id)), PyNone)

get_card(t) ==
    \E card_id \in Ids :
        _get(t, "get_card", <<PyInt(card_id)>>,
             format(<<"/card/", "{0}">>, PyInt(card_id)), PyNone)

create_card(t) ==
    \E data \in DataArgs :
        _post(t, "create_card", <<data>>, "/create/card", data)

delete_card(t) ==
    \E card_id \in Ids :
        LET data == PyDict([id |-> PyInt(card_id)])
        IN  _post(t, "delete_card", <<PyInt(card_id)>>, "/delete/card", data)

get_promos(t) == _get(t, "get_promos", <<>>, "/promo", PyNone)

get_promo(t) ==
    \E promo_id \in Ids :
        _get(t, "get_promo", <<PyInt(promo_id)>>,
             format(<<"/promo/", "{0}">>, PyInt(promo_id)), PyNone)

create_promo(t) ==
    \E data \in DataArgs :
        _post(t, "create_promo", <<data>>, "/create/promo", data)

delete_promo(t) ==
    \E promo_id \in Ids :
        LET data == PyDict([id |-> PyInt(promo_id)])
        IN  _post(t, "delete_promo", <<PyInt(promo_id)>>, "/delete/promo", data)

get_email_template(t) ==
    \E template_id \in Ids :
        _get(t, "get_email_template", <<PyInt(template_id)>>,
             format(<<"/email/", "{0}">>, PyInt(template_id)), PyNone)

send_email(t) ==
    \E data \in DataArgs :
        _post(t, "send_email", <<data>>, "/send-email", data)

get_account(t) == _get(t, "get_account", <<>>, "/account", PyNone)

get_stats(t) == _get(t, "get_stats", <<>>, "/stats", PyNone)

get_shipping_rules(t) == _get(t, "get_shipping_rules", <<>>, "/shipping/", PyNone)

get_shipping_rule(t) ==
    \E shipping_rule_id \in Ids :
        _get(t, "get_shipping_rule", <<PyInt(shipping_rule_id)>>,
             format(<<"/shipping/", "{0}">>, PyInt(shipping_rule_id)), PyNone)

get_tax_rules(t) == _get(t, "get_tax_rules", <<>>, "/tax", PyNone)

get_tax_rule(t) ==
    \E rule_id \in Ids :
        _get(t, "get_tax_rule", <<PyInt(rule_id)>>,
             format(<<"/tax/", "{0}">>, PyInt(rule_id)), PyNone)

get_multi_auth_token(t) ==
    \E data \in DataArgs :
        _post(t, "get_multi_auth_token", <<data>>, "/multiauth", data)

----------------------------------------------------------------------------
(* One caller using the client, one call after the other *)

Next ==
    \/ get_customers(1)
    \/ get_customer(1)
    \/ get_addresses(1)
    \/ get_address(1)
    \/ get_profile(1)
    \/ auth_customer(1)
    \/ create_customer(1)
    \/ update_customer(1)
    \/ delete_customer(1)
    \/ get_questions(1)
    \/ update_answer(1)
    \/ get_answers(1)
    \/ get_plans(1)
    \/ get_plan(1)
    \/ create_plan(1)
    \/ update_plan(1)
    \/ get_subscriptions(1)
    \/ get_subscription(1)
    \/ subscribe_customer(1)
    \/ update_subscription(1)
    \/ unsubscribe_customer(1)
    \/ get_subscribers(1)
    \/ get_invoice(1)
    \/ get_invoices(1)
    \/ process_invoice(1)
    \/ mark_invoice_as_paid(1)
    \/ add_promo_code_to_invoice(1)
    \/ remove_promo_code_from_invoice(1)
    \/ update_invoice_card(1)
    \/ update_invoice_items(1)
    \/ create_invoice(1)
    \/ delete_invoice(1)
    \/ get_gateways(1)
    \/ get_gateway(1)
    \/ create_charge(1)
    \/ get_charge(1)
    \/ refund_charge(1)
    \/ get_cards(1)
    \/ get_card(1)
    \/ create_card(1)
    \/ delete_card(1)
    \/ get_promos(1)
    \/ get_promo(1)
    \/ create_promo(1)
    \/ delete_promo(1)
    \/ get_email_template(1)
    \/ send_email(1)
    \/ get_account(1)
    \/ get_stats(1)
    \/ get_shipping_rules(1)
    \/ get_shipping_rule(1)
    \/ get_tax_rules(1)
    \/ get_tax_rule(1)
    \/ get_multi_auth_token(1)
    \/ Respond(1)
    \/ RaiseForStatus(1)
    \/ ReturnJson(1)
    \/ Deliver(1)

Spec == Init /\ [][Next]_vars

----------------------------------------------------------------------------
(* Two execution contexts sharing one client.  Each runs PayWhirl methods  *)
(* on its own stack; the steps of the two interleave freely.  Python runs  *)
(* each step of _request on the caller's own local variables.              *)

InitConcurrent ==
    /\ Init
    /\ ctor.api_key = "pwpk_a"
    /\ ctor.api_base = DefaultApiBase

NextConcurrent ==
    \E t \in Threads :
        \/ get_customer(t)
        \/ delete_customer(t)
        \/ create_customer(t)
        \/ Respond(t)
        \/ RaiseForStatus(t)
        \/ ReturnJson(t)
        \/ Deliver(t)

SpecConcurrent == InitConcurrent /\ [][NextConcurrent]_vars

----------------------------------------------------------------------------
(* Properties *)

\* the caller's invocation is under way or has just finished
InCall(t) == pc[t] # "idle"

Finished(t) == pc[t] = "done"

IsClientOrServerError(status) == status \in 400..599

IsSuccess(status) == status \in 200..299

\* the decimal text of the identifiers of Ids, written out
IdText(v) == CASE v.i = 7 -> "7" [] v.i = 42 -> "42"

\* C1: a 4xx or 5xx response makes the call fail with an HTTP error that
\* exposes the response's status code and raw body; no value is returned and
\* no further request is sent for the call (as many requests as calls).
C1_HttpErrorOnFailureStatus ==
    \A t \in Threads :
        Finished(t) /\ IsClientOrServerError(resp[t].status_code) =>
            /\ outcome[t].kind = "HTTPError"
            /\ outcome[t].status_code = resp[t].status_code
            /\ outcome[t].text = resp[t].text
            /\ outcome[t].value = Absent
            /\ wire.requests = calls

C1_Witness ==
    /\ Finished(1)
    /\ resp[1].status_code = 401
    /\ outcome[1].kind = "HTTPError"
    /\ outcome[1].status_code = 401
    /\ outcome[1].text = "Unauthorized"

\* C2 as stated: every response whose status is not 2xx (1xx and 3xx
\* included) reaches the caller as an HTTP error carrying status and body.
C2_NonSuccessIsError ==
    \A t \in Threads :
        Finished(t) /\ ~IsSuccess(resp[t].status_code) =>
            /\ outcome[t].kind = "HTTPError"
            /\ outcome[t].status_code = resp[t].status_code
            /\ outcome[t].text = resp[t].text

\* C2 amended: a response reaches the caller as an HTTP error (carrying its
\* status and body) exactly when its status is 4xx or 5xx; a response with
\* any other status, 1xx and 3xx included, is handled like a success: its
\* body is decoded and returned when it is JSON.
C2_ErrorExactlyOn4xx5xx ==
    \A t \in Threads :
        Finished(t) =>
            /\ outcome[t].kind = "HTTPError" <=> IsClientOrServerError(resp[t].status_code)
            /\ outcome[t].kind = "HTTPError" =>
                   /\ outcome[t].status_code = resp[t].status_code
                   /\ outcome[t].text = resp[t].text
            /\ ~IsSuccess(resp[t].status_code)
                 /\ ~IsClientOrServerError(resp[t].status_code)
                 /\ JsonValid(resp[t].text) =>
                   /\ outcome[t].kind = "return"
                   /\ outcome[t].value = JsonLoads(resp[t].text)

C2_Witness ==
    /\ Finished(1)
    /\ resp[1].status_code = 304
    /\ outcome[1].kind = "return"
    /\ outcome[1].value = PyList

\* C3: every invocation makes exactly one round trip: the transport has
\* received as many requests as invocations were made and answered all but
\* those still in flight, also when an invocation repeats the one before.
C3_OneRoundTripPerCall ==
    /\ wire.requests = calls
    /\ wire.responses = calls - Cardinality({t \in Threads : pc[t] = "sent"})

C3_Witness ==
    /\ identical[1]
    /\ Finished(1)
    /\ calls = 2
    /\ wire.requests = 2
    /\ wire.responses = 2

\* C4: on a success status the value returned is the JSON-decoded body of
\* the response to the call's own request, unchanged.
C4_ReturnsDecodedBody ==
    \A t \in Threads :
        Finished(t) =>
            /\ outcome[t].kind = "return" =>
                   /\ outcome[t].value = JsonLoads(resp[t].text)
                   /\ resp[t].request = req[t]
            /\ IsSuccess(resp[t].status_code) /\ JsonValid(resp[t].text) =>
                   outcome[t].kind = "return"

C4_Witness ==
    /\ Finished(1)
    /\ call[1].name = "get_customer"
    /\ call[1].args = <<PyInt(42)>>
    /\ resp[1].status_code = 200
    /\ resp[1].text = "{\"id\": 42}"
    /\ outcome[1].kind = "return"
    /\ outcome[1].value = PyDict([id |-> PyInt(42)])

\* the endpoint table of C5: verb, and the path as the text before and
\* after the identifier (id says whether the path holds one)
Endpoint(verb, pre, id, post) == [verb |-> verb, pre |-> pre, id |-> id, post |-> post]

EndpointTable ==
    [get_customers                  |-> Endpoint("GET",  "/customers", FALSE, ""),
     get_customer                   |-> Endpoint("GET",  "/customer/", TRUE, ""),
     create_customer                |-> Endpoint("POST", "/create/customer", FALSE, ""),
     update_customer                |-> Endpoint("POST", "/update/customer", FALSE, ""),
     delete_customer                |-> Endpoint("POST", "/delete/customer", FALSE, ""),
     subscribe_customer             |-> Endpoint("POST", "/subscribe/customer", FALSE, ""),
     process_invoice                |-> Endpoint("POST", "/invoice/", TRUE, "/process"),
     mark_invoice_as_paid           |-> Endpoint("POST", "/invoice/", TRUE, "/mark-as-paid"),
     add_promo_code_to_invoice      |-> Endpoint("POST", "/invoice/", TRUE, "/add-promo"),
     remove_promo_code_from_invoice |-> Endpoint("POST", "/invoice/", TRUE, "/remove-promo"),
     update_invoice_card            |-> Endpoint("POST", "/invoice/", TRUE, "/card"),
     update_invoice_items           |-> Endpoint("POST", "/invoice/", TRUE, "/items"),
     refund_charge                  |-> Endpoint("POST", "/refund/charge/", TRUE, ""),
     get_multi_auth_token           |-> Endpoint("POST", "/multiauth", FALSE, ""),
     send_email                     |-> Endpoint("POST", "/send-email", FALSE, ""),
     get_account                    |-> Endpoint("GET",  "/account", FALSE, ""),
     get_stats                      |-> Endpoint("GET",  "/stats", FALSE, "")]

EndpointPath(e, args) ==
    IF e.id THEN e.pre \o IdText(args[1]) \o e.post ELSE e.pre

\* C5: each method of the endpoint table sends its one verb and path,
\* whatever its arguments; every request of any method is a GET or a POST.
C5_FixedVerbAndPath ==
    \A t \in Threads :
        InCall(t) =>
            /\ req[t].verb \in {"GET", "POST"}
            /\ call[t].name \in DOMAIN EndpointTable =>
                   LET e == EndpointTable[call[t].name]
                   IN  /\ req[t].verb = e.verb
                       /\ req[t].url = ctor.api_base \o EndpointPath(e, call[t].args)

C5_Witness ==
    /\ InCall(1)
    /\ call[1].name = "mark_invoice_as_paid"
    /\ call[1].args = <<PyInt(42)>>
    /\ ctor.api_base = DefaultApiBase
    /\ req[1].verb = "POST"
    /\ req[1].url = "https://api.paywhirl.com/invoice/42/mark-as-paid"

\* C6: the dispatcher carries the parameter mapping of a GET as the query
\* string only and that of a POST as the JSON body only; with no mapping
\* given, an empty mapping is dispatched.
C6_ParamsByVerb ==
    \A t \in Threads :
        InCall(t) =>
            LET given  == call[t].params
                isGet  == call[t].method = "get"
                isPost == call[t].method = "post"
            IN  /\ isGet \/ isPost
                /\ isGet => req[t].verb = "GET" /\ req[t].json = Absent
                /\ isPost => req[t].verb = "POST" /\ req[t].params = Absent
                /\ isGet /\ given.t = "dict" => req[t].params = given
                /\ isPost /\ given.t = "dict" => req[t].json = given
                /\ isGet /\ given = PyNone => req[t].params = EmptyDict
                /\ isPost /\ given = PyNone => req[t].json = EmptyDict

C6_Witness ==
    /\ InCall(1)
    /\ call[1].name = "get_plans"
    /\ call[1].params = PyDict([limit |-> PyInt(5)])
    /\ req[1].verb = "GET"
    /\ req[1].params = PyDict([limit |-> PyInt(5)])
    /\ QueryString(req[1].params) = {"limit=5"}
    /\ req[1].json = Absent

\* C7: every request carries exactly the headers api_key and api_secret,
\* with the values given to the constructor, and is sent with certificate
\* verification set to the client's flag, which is true.
C7_AuthHeadersAndVerify ==
    \A t \in Threads :
        InCall(t) =>
            /\ DOMAIN req[t].headers = {"api_key", "api_secret"}
            /\ req[t].headers.api_key = ctor.api_key
            /\ req[t].headers.api_secret = ctor.api_secret
            /\ req[t].verify = self._verify_ssl
            /\ self._verify_ssl = TRUE

C7_Witness ==
    /\ calls = 2
    /\ InCall(1)
    /\ ctor.api_key = "pwpk_b"
    /\ req[1].headers = [api_key |-> "pwpk_b", api_secret |-> "pwpsk_x"]
    /\ req[1].verify = TRUE

\* C8: the four configuration fields keep the values the constructor gave
\* them, whatever calls were made and however they ended.
C8_ConfigurationUnchanged ==
    /\ self._api_key = ctor.api_key
    /\ self._api_secret = ctor.api_secret
    /\ self._api_base = ctor.api_base
    /\ self._verify_ssl = TRUE

C8_Witness ==
    /\ calls = 2
    /\ Finished(1)
    /\ outcome[1].kind = "HTTPError"
    /\ self = [_api_key |-> "pwpk_a", _api_secret |-> "pwpsk_x",
               _api_base |-> "http://localhost:8080", _verify_ssl |-> TRUE]

\* the list-type calls of C9 and the default limit documented for each
DocumentedLimit ==
    [get_customers |-> "100", get_plans |-> "100",
     get_subscribers |-> "20", get_questions |-> "100"]

ListPath ==
    [get_customers |-> "/customers", get_plans |-> "/plans",
     get_subscribers |-> "/subscribers", get_questions |-> "/questions"]

\* a list-type call made with no options: an empty mapping, or
\* get_questions with its argument left at the default
NoOptions(c) ==
    \/ c.name \in {"get_customers", "get_plans", "get_subscribers"} /\ c.args = <<EmptyDict>>
    \/ c.name = "get_questions" /\ c.args = <<PyInt(100)>>

\* C9 as stated: a list-type call with no options sends the documented
\* default limit in its query string.
C9_DefaultsInQueryString ==
    \A t \in Threads :
        InCall(t) /\ NoOptions(call[t]) =>
            ("limit=" \o DocumentedLimit[call[t].name]) \in QueryString(req[t].params)

\* C9 amended: get_questions with no argument sends limit=100 in its query
\* string; get_customers, get_plans and get_subscribers with an empty options
\* mapping send an empty query string, the documented defaults being left to
\* the remote service.
C9_OnlyQuestionsSendsDefault ==
    \A t \in Threads :
        InCall(t) /\ NoOptions(call[t]) =>
            /\ req[t].verb = "GET"
            /\ req[t].url = ctor.api_base \o ListPath[call[t].name]
            /\ QueryString(req[t].params) =
                   IF call[t].name = "get_questions" THEN {"limit=100"} ELSE {}

C9_Witness ==
    /\ InCall(1)
    /\ call[1].name = "get_customers"
    /\ call[1].args = <<EmptyDict>>
    /\ QueryString(req[1].params) = {}

\* the get-by-id methods of C10 and the resource prefix of each
ResourcePrefix ==
    [get_customer       |-> "/customer/",
     get_addresses      |-> "/customer/addresses/",
     get_address        |-> "/customer/address/",
     get_profile        |-> "/customer/profile/",
     get_plan           |-> "/plan/",
     get_subscriptions  |-> "/subscriptions/",
     get_subscription   |-> "/subscription/",
     get_invoice        |-> "/invoice/",
     get_invoices       |-> "/invoices/",
     get_gateway        |-> "/gateway/",
     get_charge         |-> "/charge/",
     get_cards          |-> "/cards/",
     get_card           |-> "/card/",
     get_promo          |-> "/promo/",
     get_email_template |-> "/email/",
     get_shipping_rule  |-> "/shipping/",
     get_tax_rule       |-> "/tax/"]

\* C10: a get-by-id call requests base + resource prefix + the text of the
\* identifier, nothing after it, with no query parameters; get_invoices
\* alone carries a parameter, the `all` flag.
C10_GetByIdUrl ==
    \A t \in Threads :
        InCall(t) /\ call[t].name \in DOMAIN ResourcePrefix =>
            LET prefix == ResourcePrefix[call[t].name]
                id     == IdText(call[t].args[1])
            IN  /\ req[t].verb = "GET"
                /\ req[t].url = ctor.api_base \o prefix \o id
                /\ Len(req[t].url) = Len(ctor.api_base) + Len(prefix) + Len(id)
                /\ req[t].json = Absent
                /\ req[t].params.t = "dict"
                /\ DOMAIN req[t].params.d =
                       IF call[t].name = "get_invoices" THEN {"all"} ELSE {}

C10_Witness ==
    /\ InCall(1)
    /\ call[1].name = "get_card"
    /\ call[1].args = <<PyInt(7)>>
    /\ ctor.api_base = "http://localhost:8080"
    /\ req[1].url = "http://localhost:8080/card/7"
    /\ QueryString(req[1].params) = {}

\* the create/update methods of C11, each taking one record mapping
RecordMethods ==
    {"create_customer", "update_customer", "update_answer", "create_plan",
     "update_plan", "subscribe_customer", "create_invoice", "create_charge",
     "create_card", "create_promo"}

\* C11: the JSON body of a create/update call has exactly the keys and
\* values of the mapping the caller supplied: none added, dropped or changed.
C11_BodyIsSuppliedMapping ==
    \A t \in Threads :
        InCall(t) /\ call[t].name \in RecordMethods /\ call[t].args[1].t = "dict" =>
            LET supplied == call[t].args[1]
                body     == req[t].json
            IN  /\ req[t].verb = "POST"
                /\ req[t].params = Absent
                /\ body.t = "dict"
                /\ DOMAIN body.d = DOMAIN supplied.d
                /\ \A k \in DOMAIN supplied.d : body.d[k] = supplied.d[k]

C11_Witness ==
    /\ InCall(1)
    /\ call[1].name = "update_customer"
    /\ call[1].args = <<PyDict([id |-> PyInt(7), first_name |-> PyStr("Ann")])>>
    /\ DOMAIN req[1].json.d = {"id", "first_name"}
    /\ req[1].json.d["first_name"] = PyStr("Ann")

\* the mapping a request carries: the query parameters of a GET, the JSON
\* body of a POST
Carried(r) == IF r.verb = "GET" THEN r.params ELSE r.json

\* the optional arguments of update_subscription: key, and place in the
\* argument list
SubscriptionOptions ==
    [quantity |-> 3, address_id |-> 4, installments_left |-> 5,
     trial_end |-> 6, card_id |-> 7]

\* C12 as stated: the key of an optional argument is in the request only
\* when the caller supplied a value other than the default.
C12_OptionalKeyOnlyWhenSupplied ==
    \A t \in Threads :
        InCall(t) =>
            LET sent == DOMAIN Carried(req[t]).d
                a    == call[t].args
            IN  /\ call[t].name = "delete_customer" /\ "forget" \in sent => a[2] # PyNone
                /\ call[t].name = "get_questions" /\ "limit" \in sent => a[1] # PyInt(100)
                /\ call[t].name = "get_invoices" /\ "all" \in sent => a[2] # PyBool(FALSE)
                /\ call[t].name = "update_subscription" =>
                       \A k \in DOMAIN SubscriptionOptions :
                           k \in sent => a[SubscriptionOptions[k]] # PyNone

\* C12 amended: delete_customer sends forget, and update_subscription each
\* of its five optional keys, exactly when the argument is not None, with the
\* value given; get_questions always sends limit (100 when the argument is
\* left out) and get_invoices always sends all ('1' when all_invoices is
\* true, the empty string when it is false or left out).
C12_OptionalKeys ==
    \A t \in Threads :
        InCall(t) =>
            LET m    == Carried(req[t])
                sent == DOMAIN m.d
                a    == call[t].args
            IN  /\ call[t].name = "delete_customer" =>
                       /\ "forget" \in sent <=> a[2] # PyNone
                       /\ "forget" \in sent => m.d["forget"] = a[2]
                /\ call[t].name = "update_subscription" =>
                       \A k \in DOMAIN SubscriptionOptions :
                           /\ k \in sent <=> a[SubscriptionOptions[k]] # PyNone
                           /\ k \in sent => m.d[k] = a[SubscriptionOptions[k]]
                /\ call[t].name = "get_questions" =>
                       /\ "limit" \in sent
                       /\ m.d["limit"] = a[1]
                /\ call[t].name = "get_invoices" =>
                       /\ "all" \in sent
                       /\ m.d["all"] = PyStr(IF a[2] = PyBool(TRUE) THEN "1" ELSE "")

C12_Witness ==
    /\ InCall(1)
    /\ call[1].name = "get_invoices"
    /\ call[1].args = <<PyInt(7), PyBool(FALSE)>>
    /\ req[1].params = PyDict([all |-> PyStr("")])
    /\ QueryString(req[1].params) = {"all="}

\* C13: delete_customer posts to /delete/customer a body holding id, and
\* forget exactly when forget is not None (0 is sent); update_subscription
\* posts subscription_id, plan_id and each optional argument that is not
\* None, and no other key.
C13_DeleteAndUpdateBodies ==
    \A t \in Threads :
        InCall(t) =>
            LET a    == call[t].args
                body == req[t].json
            IN  /\ call[t].name = "delete_customer" =>
                       /\ req[t].verb = "POST"
                       /\ req[t].url = ctor.api_base \o "/delete/customer"
                       /\ body = IF a[2] = PyNone
                                 THEN PyDict([id |-> a[1]])
                                 ELSE PyDict([id |-> a[1], forget |-> a[2]])
                /\ call[t].name = "update_subscription" =>
                       LET given == {k \in DOMAIN SubscriptionOptions :
                                         a[SubscriptionOptions[k]] # PyNone}
                       IN  /\ req[t].verb = "POST"
                           /\ body.t = "dict"
                           /\ DOMAIN body.d = {"subscription_id", "plan_id"} \cup given
                           /\ body.d["subscription_id"] = a[1]
                           /\ body.d["plan_id"] = a[2]
                           /\ \A k \in given : body.d[k] = a[SubscriptionOptions[k]]

C13_Witness ==
    /\ InCall(1)
    /\ call[1].name = "delete_customer"
    /\ call[1].args = <<PyInt(7), PyInt(0)>>
    /\ req[1].verb = "POST"
    /\ req[1].json = PyDict([id |-> PyInt(7), forget |-> PyInt(0)])

\* the methods that hand a caller-supplied value to the dispatcher as the
\* parameter mapping, and the place of that value in the argument list
MappingArgument ==
    [get_customers |-> 1, create_customer |-> 1, update_customer |-> 1,
     update_answer |-> 1, get_plans |-> 1, create_plan |-> 1, update_plan |-> 1,
     subscribe_customer |-> 1, get_subscribers |-> 1, create_invoice |-> 1,
     create_charge |-> 1, create_card |-> 1, create_promo |-> 1, send_email |-> 1,
     get_multi_auth_token |-> 1,
     process_invoice |-> 2, update_invoice_items |-> 2, refund_charge |-> 2]

\* the value the caller supplied as the parameter mapping
Supplied(c) == c.args[MappingArgument[c.name]]

\* None, 0, the empty string, the empty list and the empty mapping
EmptyValues == {PyNone, PyInt(0), PyStr(""), PyList, EmptyDict}

\* C15 as stated: whatever value the caller supplies, a mapping or not, the
\* request is issued and carries that value as given.
C15_ForwardedAsGiven ==
    \A t \in Threads :
        InCall(t) /\ call[t].name \in DOMAIN MappingArgument =>
            /\ req[t].url = ctor.api_base \o call[t].path
            /\ Carried(req[t]) = Supplied(call[t])

\* C15 amended: for a mapping and for None, 0, the empty string and the
\* empty list, no call fails locally: the request is issued.  A non-empty
\* mapping is forwarded as given; None, 0, the empty string, the empty list
\* and the empty mapping are all sent as an empty mapping.
C15_EmptyValuesBecomeEmptyMapping ==
    \A t \in Threads :
        InCall(t) /\ call[t].name \in DOMAIN MappingArgument =>
            LET given == Supplied(call[t])
            IN  /\ req[t].url = ctor.api_base \o call[t].path
                /\ wire.requests = calls
                /\ given \in EmptyValues => Carried(req[t]) = EmptyDict
                /\ given.t = "dict" /\ DOMAIN given.d # {} => Carried(req[t]) = given

C15_Witness ==
    /\ InCall(1)
    /\ call[1].name = "update_invoice_items"
    /\ call[1].args = <<PyInt(7), PyList>>
    /\ req[1].url = ctor.api_base \o "/invoice/7/items"
    /\ req[1].json = EmptyDict

\* C16: within one dispatcher call the request is sent, then the status is
\* checked, then the body is decoded.  Nothing is decoded before the check
\* has passed, so a 4xx/5xx response ends in the HTTP error whatever its
\* body; a success response whose body is not JSON ends in a decoding error,
\* which is not the HTTP error and carries no status code: a third outcome
\* beside the returned value and the HTTP error.
C16_SendCheckDecode ==
    \A t \in Threads :
        /\ pc[t] = "sent" => req[t] # NoReq /\ resp[t] = NoResp /\ outcome[t] = NoOutcome
        /\ pc[t] = "received" => resp[t].request = req[t] /\ outcome[t] = NoOutcome
        /\ pc[t] = "checked" =>
               /\ ~IsClientOrServerError(resp[t].status_code)
               /\ outcome[t] = NoOutcome
        /\ Finished(t) =>
               /\ outcome[t].kind \in {"return", "HTTPError", "JSONDecodeError"}
               /\ IsClientOrServerError(resp[t].status_code) => outcome[t].kind = "HTTPError"
               /\ outcome[t].kind \in {"return", "JSONDecodeError"} =>
                      ~IsClientOrServerError(resp[t].status_code)
               /\ IsSuccess(resp[t].status_code) /\ ~JsonValid(resp[t].text) =>
                      /\ outcome[t].kind = "JSONDecodeError"
                      /\ outcome[t].status_code = 0
                      /\ outcome[t].value = Absent

C16_Witness ==
    /\ Finished(1)
    /\ resp[1].status_code = 200
    /\ resp[1].text = "Unauthorized"
    /\ outcome[1].kind = "JSONDecodeError"
    /\ outcome[1].status_code = 0

\* what belongs to one caller's invocation
Local(t) == <<pc[t], call[t], req[t], resp[t], outcome[t]>>

\* the request that follows from one call's own arguments and the
\* configuration given to the constructor
RequestFor(c) ==
    LET mapping == IF c.params \in EmptyValues THEN EmptyDict ELSE c.params
        post    == c.method = "post"
    IN  [verb    |-> IF post THEN "POST" ELSE "GET",
         url     |-> ctor.api_base \o c.path,
         headers |-> [api_key |-> ctor.api_key, api_secret |-> ctor.api_secret],
         verify  |-> TRUE,
         params  |-> IF post THEN Absent ELSE mapping,
         json    |-> IF post THEN mapping ELSE Absent]

\* the outcome that follows from the response to one call's own request
OutcomeFor(r) ==
    IF IsClientOrServerError(r.status_code)
    THEN [kind |-> "HTTPError", value |-> Absent,
          status_code |-> r.status_code, text |-> r.text]
    ELSE IF r.text = "{\"id\": 42}"
    THEN [kind |-> "return", value |-> PyDict([id |-> PyInt(42)]),
          status_code |-> 0, text |-> ""]
    ELSE IF r.text = "[]"
    THEN [kind |-> "return", value |-> PyList, status_code |-> 0, text |-> ""]
    ELSE [kind |-> "JSONDecodeError", value |-> Absent, status_code |-> 0, text |-> ""]

\* every call's request is the one its own arguments give, its response is
\* the answer to its own request, its outcome the one its own response
\* gives, and the client object is as constructed
CallsDependOnOwnArguments ==
    /\ self = [_api_key |-> ctor.api_key, _api_secret |-> ctor.api_secret,
               _api_base |-> ctor.api_base, _verify_ssl |-> TRUE]
    /\ \A t \in Threads :
           /\ InCall(t) => req[t] = RequestFor(call[t])
           /\ pc[t] \in {"received", "checked", "done"} => resp[t].request = req[t]
           /\ Finished(t) => outcome[t] = OutcomeFor(resp[t])

\* a step of one caller leaves the other callers' invocations and the
\* client object as they were
StepTouchesOneCaller ==
    /\ self' = self
    /\ \A u, v \in Threads : u # v => Local(u)' = Local(u) \/ Local(v)' = Local(v)

\* C14: with several execution contexts calling one client concurrently,
\* under every interleaving each call's request and outcome depend only on
\* its own arguments, the configuration and the response to its own request;
\* no call alters another call's parameters or result, and the client
\* object stays the same throughout.
C14_ConcurrentCallsIndependent ==
    []CallsDependOnOwnArguments /\ [][StepTouchesOneCaller]_vars

C14_Witness ==
    /\ Finished(1)
    /\ Finished(2)
    /\ call[1].name = "get_customer"
    /\ call[2].name = "delete_customer"
    /\ req[1].url = "https://api.paywhirl.com/customer/42"
    /\ req[2].json = PyDict([id |-> PyInt(7), forget |-> PyInt(1)])
    /\ outcome[1].kind = "HTTPError"
    /\ outcome[1].status_code = 404
    /\ outcome[2].kind = "return"
    /\ outcome[2].value = PyDict([id |-> PyInt(42)])

====
